---------------------------- MODULE Spec2Model ----------------------------
(***************************************************************************)
(* A model of svd2bitmask.py: the Peripheral/Register/Field data model,    *)
(* the layout normalisation of load_registers and load_peripheral, the     *)
(* mask constants emitted by print_registers and the duplicate routing of  *)
(* the main loop.                                                          *)
(*                                                                         *)
(* Text is modelled as a sequence of one-character strings, so that the    *)
(* regular expressions and the number formatting of the program are        *)
(* computed character by character.  Python integers are unbounded; masks  *)
(* are therefore modelled as sets of bit positions.                        *)
(***************************************************************************)
EXTENDS Integers, Sequences, FiniteSets

VARIABLES
    realname,      \* SpecName: the realname handed to Peripheral(...)
    first,         \* SpecName: the Peripheral constructed from realname
    second,        \* SpecName: the Peripheral constructed from first.name
    name_pc,       \* SpecName: "start", "constructed", "reconstructed"
    registers_xml, \* SpecFields: the <register> elements handed to load_registers
    loaded,        \* SpecFields: what load_registers ended with: [exc, value]
    fields_pc,     \* SpecFields: "start", "returned", "raised"
    peripheral_xml,   \* SpecPeripheral: the <peripheral> handed to load_peripheral
    loaded_peripheral, \* SpecPeripheral: what load_peripheral ended with: [exc, value]
    peripheral_pc,    \* SpecPeripheral: "start", "returned", "raised"
    printed_peripheral, \* SpecMask: the Peripheral handed to print_registers
    printed,          \* SpecMask: what print_registers returned
    printed_pc,       \* SpecMask: "start", "printed"
    output,           \* main: output (an output directory is in use)
    peripherals_xml,  \* main: the <peripheral> elements of the document
    idx,              \* main: the position of the loop in peripherals_xml
    peripherals,      \* main: peripherals (the accepted ones)
    duplicates,       \* main: duplicates (the queued [original path, duplicate path])
    derived,          \* main: derived
    register_count,   \* main: register_count
    field_count,      \* main: field_count
    files,            \* main: the header files written: {[path, content]}
    diffs,            \* main: the .diff files written
    main_pc           \* main: "loop", "done", "raised"

namevars == <<realname, first, second, name_pc>>

fieldvars == <<registers_xml, loaded, fields_pc>>

peripheralvars == <<peripheral_xml, loaded_peripheral, peripheral_pc>>

printedvars == <<printed_peripheral, printed, printed_pc>>

mainvars == <<output, peripherals_xml, idx, peripherals, duplicates, derived,
              register_count, field_count, files, diffs, main_pc>>

vars == <<namevars, fieldvars, peripheralvars, printedvars, mainvars>>

\* Python's None, and an XML element that is absent: the empty tuple.  An
\* element that is present is the tuple of its text, <<text>>.
None == <<>>

Elem(text) == <<text>>

Text(element) == element[1]

\* No exception left the call.
NoException == "no exception"

(***************************************************************************)
(* Characters                                                              *)
(***************************************************************************)
Digits == <<"0", "1", "2", "3", "4", "5", "6", "7", "8", "9">>

DigitChars == {Digits[i] : i \in 1..Len(Digits)}

UpperChars == {"A", "S", "U"}

LowerChars == {"a", "s", "u"}

IsDigit(c) == c \in DigitChars

\* \w of the re module: letters, digits and the underscore
IsWord(c) == c \in UpperChars \cup LowerChars \cup DigitChars \cup {"_"}

\* str.lower() on one character
LowerChar(c) ==
    CASE c = "A" -> "a"
      [] c = "S" -> "s"
      [] c = "U" -> "u"
      [] OTHER -> c

Lower(s) == [i \in 1..Len(s) |-> LowerChar(s[i])]

SetMax(S) == CHOOSE x \in S : \A y \in S : y <= x

SetMin(S) == CHOOSE x \in S : \A y \in S : x <= y

(***************************************************************************)
(* class Peripheral                                                        *)
(***************************************************************************)
\* re.match(r'(\w+)\d+$', realname): the lengths group 1 can have.  The
\* match is anchored at the start, group 1 is a non-empty run of \w, and
\* what follows it up to the end of the text is a non-empty run of \d.
NameMatches(s) ==
    {i \in 1..(Len(s) - 1) :
        /\ \A j \in 1..i : IsWord(s[j])
        /\ \A j \in (i + 1)..Len(s) : IsDigit(s[j])}

\* The match object, <<group 1>>, or None.  \w+ is greedy and \w matches
\* digits too, so group 1 is the longest candidate.
NameMatch(s) ==
    IF NameMatches(s) = {} THEN None
    ELSE <<SubSeq(s, 1, SetMax(NameMatches(s)))>>

\* Peripheral.__init__
Peripheral(rname, description, registers) ==
    [name        |-> IF NameMatch(rname) # None THEN NameMatch(rname)[1] ELSE rname,
     realname    |-> rname,
     description |-> description,
     registers   |-> registers,
     path        |-> <<>>]

(***************************************************************************)
(* class Field, class Register                                             *)
(***************************************************************************)
\* Field.__init__
Field(name, description, offset, width, readonly) ==
    [name        |-> name,
     description |-> description,
     offset      |-> offset,
     width       |-> width,
     readonly    |-> readonly]

\* Register.__init__
Register(size, offset, name, description, type, fields, reserved, reset) ==
    [size        |-> size,
     offset      |-> offset,
     name        |-> name,
     description |-> description,
     type        |-> type,
     fields      |-> fields,
     reserved    |-> reserved,
     reset       |-> reset]

\* list.sort() with Field.__lt__ / Register.__lt__ (self.offset < other.offset):
\* a stable sort by offset.  x goes behind every element that is not
\* greater than it.
SortInsert(sorted, x) ==
    LET k == Cardinality({i \in 1..Len(sorted) : ~(x.offset < sorted[i].offset)})
    IN  SubSeq(sorted, 1, k) \o <<x>> \o SubSeq(sorted, k + 1, Len(sorted))

\* list.sort()
RECURSIVE SortByOffset(_)
SortByOffset(s) ==
    IF Len(s) <= 1 THEN s
    ELSE SortInsert(SortByOffset(SubSeq(s, 1, Len(s) - 1)), s[Len(s)])

(***************************************************************************)
(* Numbers in text                                                         *)
(***************************************************************************)
DigitValue(c) == CHOOSE d \in 0..9 : Digits[d + 1] = c

\* str(n) for n in 0..99
Dec(n) ==
    IF n < 10 THEN <<Digits[n + 1]>>
    ELSE <<Digits[(n \div 10) + 1], Digits[(n % 10) + 1]>>

\* int(text) of a run of decimal digits
RECURSIVE ParseInt(_)
ParseInt(t) ==
    IF Len(t) = 0 THEN 0
    ELSE 10 * ParseInt(SubSeq(t, 1, Len(t) - 1)) + DigitValue(t[Len(t)])

\* The last position of the maximal run of digits of t that starts at
\* position i (i - 1 when t[i] is no digit).
DigitRunEnd(t, i) ==
    SetMax({j \in (i - 1)..Len(t) : \A k \in i..j : IsDigit(t[k])})

\* re.match(r'\[(\d+):(\d+)\]', text): <<group 1, group 2>>, or None.  Each
\* \d+ is followed by a character that is no digit, so it takes the whole
\* run of digits.  Text after the closing bracket is not looked at.
BitRangeMatch(t) ==
    LET e1 == DigitRunEnd(t, 2)
        e2 == DigitRunEnd(t, e1 + 2)
    IN  IF /\ Len(t) >= 1 /\ t[1] = "["
           /\ e1 >= 2
           /\ Len(t) >= e1 + 1 /\ t[e1 + 1] = ":"
           /\ e2 >= e1 + 2
           /\ Len(t) >= e2 + 1 /\ t[e2 + 1] = "]"
        THEN <<SubSeq(t, 2, e1), SubSeq(t, e1 + 2, e2)>>
        ELSE None

(***************************************************************************)
(* load_registers                                                          *)
(***************************************************************************)
RegisterBits == 32

\* lines 382-393: the data type of a register of the given size
TypeOf(size) ==
    CASE size = 64 -> "uint64_t"
      [] size = 32 -> "uint32_t"
      [] size = 16 -> "uint16_t"
      [] size = 8  -> "uint8_t"
      [] OTHER     -> "UNKNOWN"

\* lines 428-433
ReadOnly(field_xml) ==
    field_xml.access # None /\ Text(field_xml.access) = "read-only"

\* lines 404-426: <<field_offset, field_width>> of a bitRange text.  Group 1
\* is taken as the offset and group 2 - group 1 + 1 as the width.
BitRangeOffsetWidth(m) ==
    <<ParseInt(m[1]), ParseInt(m[2]) - ParseInt(m[1]) + 1>>

\* lines 398-441, one pass of the loop over the <field> elements:
\* [exc, field].  exc is the exception the pass ends with, None when it
\* appends a Field.  Without a bitOffset/bitWidth pair and without a
\* bitRange the message of line 414 is formatted first; it reads the names
\* `name` and `field_name`, which are bound nowhere: NameError.  With a
\* bitRange that re.match rejects, m is None and m.groups() of line 420
\* raises AttributeError.
ParseField(field_xml) ==
    IF field_xml.bitOffset # None /\ field_xml.bitWidth # None
    THEN [exc   |-> NoException,
          field |-> Field(field_xml.name, field_xml.description,
                          ParseInt(Text(field_xml.bitOffset)),
                          ParseInt(Text(field_xml.bitWidth)),
                          ReadOnly(field_xml))]
    ELSE IF field_xml.bitRange = None
    THEN [exc |-> "NameError", field |-> None]
    ELSE LET m == BitRangeMatch(Text(field_xml.bitRange))
         IN  IF m = None
             THEN [exc |-> "AttributeError", field |-> None]
             ELSE [exc   |-> NoException,
                   field |-> Field(field_xml.name, field_xml.description,
                                   BitRangeOffsetWidth(m)[1],
                                   BitRangeOffsetWidth(m)[2],
                                   ReadOnly(field_xml))]

\* lines 397-441: the loop over the <field> elements: [exc, fields]
RECURSIVE ParseFields(_)
ParseFields(fields_xml) ==
    IF fields_xml = <<>>
    THEN [exc |-> NoException, fields |-> <<>>]
    ELSE LET n     == Len(fields_xml)
             front == ParseFields(SubSeq(fields_xml, 1, n - 1))
             last  == ParseField(fields_xml[n])
         IN  IF front.exc # NoException THEN front
             ELSE IF last.exc # NoException THEN [exc |-> last.exc, fields |-> <<>>]
             ELSE [exc |-> NoException, fields |-> Append(front.fields, last.field)]

\* line 453: the reserved field in front of a first field that starts at
\* start_next.  Its width is start_next - 1.
LeadingField(start_next) ==
    Field(<<>>, "Reserved", 0, start_next - 1, TRUE)

\* lines 448-456
WithLeadingField(fields) ==
    IF Len(fields) > 0 /\ fields[1].offset # 0
    THEN <<LeadingField(fields[1].offset)>> \o fields
    ELSE fields

\* A gap field that is one bit short.
GapFieldShort(end, diff) == Field(<<>>, "Reserved", end, diff - 1, TRUE)

\* line 468: the reserved field that fills the gap behind fields[i]
GapField(end, diff) == Field(<<>>, "Reserved", end, diff, TRUE)

\* lines 459-471: the fields the loop appends while i runs over 1..n
\* (range() is evaluated once, so the appended fields are not visited).
RECURSIVE GapFields(_, _)
GapFields(fields, n) ==
    IF n <= 0 THEN <<>>
    ELSE LET end  == fields[n].offset + fields[n].width
             diff == fields[n + 1].offset - end
         IN  GapFields(fields, n - 1)
                 \o (IF diff > 0 THEN <<GapField(end, diff)>> ELSE <<>>)

\* lines 476-485
WithTrailingField(fields) ==
    LET last == fields[Len(fields)]
        end  == last.offset + last.width
    IN  IF end # RegisterBits
        THEN Append(fields, Field(<<>>, "Reserved", end, RegisterBits - end, TRUE))
        ELSE fields

\* lines 443-485: the field list of a register with the reserved fields added
FillFields(fields) ==
    IF Len(fields) > 0
    THEN LET sorted == SortByOffset(fields)
             led    == WithLeadingField(sorted)
             gapped == led \o GapFields(led, Len(led) - 1)
         IN  WithTrailingField(SortByOffset(gapped))
    ELSE fields

\* lines 364-488, one pass of the loop over the <register> elements:
\* [exc, register]
LoadRegister(register_xml) ==
    LET parsed == IF register_xml.fields # None
                  THEN ParseFields(Text(register_xml.fields))
                  ELSE [exc |-> NoException, fields |-> <<>>]
    IN  IF parsed.exc # NoException
        THEN [exc |-> parsed.exc, register |-> None]
        ELSE [exc      |-> NoException,
              register |-> Register(register_xml.size,
                                    register_xml.addressOffset,
                                    register_xml.name,
                                    register_xml.description,
                                    TypeOf(register_xml.size),
                                    FillFields(parsed.fields),
                                    FALSE,
                                    register_xml.resetValue)]

\* load_registers: [exc, value].  exc is the exception that leaves the
\* function, None when it returns value.
RECURSIVE load_registers(_)
load_registers(registers) ==
    IF registers = <<>>
    THEN [exc |-> NoException, value |-> <<>>]
    ELSE LET n     == Len(registers)
             front == load_registers(SubSeq(registers, 1, n - 1))
             last  == LoadRegister(registers[n])
         IN  IF front.exc # NoException THEN front
             ELSE IF last.exc # NoException THEN [exc |-> last.exc, value |-> <<>>]
             ELSE [exc |-> NoException, value |-> Append(front.value, last.register)]

(***************************************************************************)
(* load_peripheral                                                         *)
(***************************************************************************)
\* Register(size, offset, reserved=True): name, description, type, fields
\* and reset take the defaults of Register.__init__.
ReservedRegister(size, offset) ==
    Register(size, offset, <<>>, "", "UNKNOWN", <<>>, TRUE, 0)

\* line 336: the reserved register in front of a first register at
\* start_next.  The arguments are (0, start_next - 1): size 0 at offset
\* start_next - 1.
LeadingRegister(start_next) == ReservedRegister(0, start_next - 1)

\* lines 332-339
WithLeadingRegister(registers) ==
    IF Len(registers) > 0 /\ registers[1].offset # 0
    THEN <<LeadingRegister(registers[1].offset)>> \o registers
    ELSE registers

\* line 350
GapRegister(diff, end) == ReservedRegister(diff, end)

\* lines 341-353: the registers the loop appends while i runs over 1..n
RECURSIVE GapRegisters(_, _)
GapRegisters(registers, n) ==
    IF n <= 0 THEN <<>>
    ELSE LET end  == registers[n].offset + registers[n].size
             diff == registers[n + 1].offset - end
         IN  GapRegisters(registers, n - 1)
                 \o (IF diff > 0 THEN <<GapRegister(diff, end)>> ELSE <<>>)

\* lines 329-356: the register list with the reserved registers added
FillRegisters(registers) ==
    LET sorted == SortByOffset(registers)
        led    == WithLeadingRegister(sorted)
    IN  SortByOffset(led \o GapRegisters(led, Len(led) - 1))

\* load_peripheral: [exc, value].  exc is the exception that leaves the
\* function; value is None or <<the Peripheral>>.
load_peripheral(peripheral) ==
    LET registers == load_registers(peripheral.registers)
    IN  IF registers.exc # NoException
        THEN [exc |-> registers.exc, value |-> None]
        ELSE IF registers.value = <<>>
        THEN [exc |-> NoException, value |-> None]
        ELSE [exc   |-> NoException,
              value |-> Elem(Peripheral(peripheral.name, peripheral.description,
                                        FillRegisters(registers.value)))]

(***************************************************************************)
(* print_registers                                                         *)
(***************************************************************************)
HexDigits == <<"0", "1", "2", "3", "4", "5", "6", "7",
               "8", "9", "A", "B", "C", "D", "E", "F">>

\* The value of hex digit i (from the right, 0 first) of the integer whose
\* set bits are `bits`.
Nibble(bits, i) ==
    (IF 4 * i \in bits THEN 1 ELSE 0) + (IF 4 * i + 1 \in bits THEN 2 ELSE 0)
      + (IF 4 * i + 2 \in bits THEN 4 ELSE 0) + (IF 4 * i + 3 \in bits THEN 8 ELSE 0)

\* f'{mask:X}': the upper-case hex digits of a mask, without leading zeros
Hex(bits) ==
    IF bits = {} THEN <<"0">>
    ELSE LET n == (SetMax(bits) \div 4) + 1
         IN  [j \in 1..n |-> HexDigits[Nibble(bits, n - j) + 1]]

\* lines 231-234 and 248-250: mask |= (1 << (i + field.offset)) for i in
\* range(field.width), as the set of the bits of mask
FieldMask(field) == {i + field.offset : i \in 0..(field.width - 1)}

\* One #define of a field: the register's type, the literal and whether
\* the literal is shifted left by the field's _Pos macro:
\*   ((<type>)<literal>)   or   ((<type>)(<literal> << <..._Pos>))
Define(type, field, suffix, literal, shifted) ==
    [type |-> type, field |-> field.name, suffix |-> suffix,
     literal |-> literal, shifted |-> shifted]

\* lines 238-254: the constants emitted for one named field (the _Val(v)
\* and (v) macros of a multi-bit field only combine _Msk and _Pos)
FieldDefines(type, field) ==
    <<Define(type, field, "_Pos", Dec(field.offset), FALSE)>>
      \o (IF field.width = 1
          THEN <<Define(type, field, "", <<"1">>, TRUE)>>
          ELSE <<Define(type, field, "_Msk", <<"0", "x">> \o Hex(FieldMask(field)), TRUE)>>)

\* line 229: the fields with a name
Filtered(fields) == SelectSeq(fields, LAMBDA field : Len(field.name) > 0)

RECURSIVE AllFieldDefines(_, _)
AllFieldDefines(type, fields) ==
    IF fields = <<>> THEN <<>>
    ELSE FieldDefines(type, Head(fields)) \o AllFieldDefines(type, Tail(fields))

\* lines 183-260, one pass of the loop over the registers: the _Mask
\* literal of the register and the #defines of its named fields
PrintRegister(register) ==
    [register |-> register.name,
     mask     |-> <<"0", "x">> \o Hex(UNION {FieldMask(Filtered(register.fields)[k]) :
                                              k \in 1..Len(Filtered(register.fields))}),
     defines  |-> AllFieldDefines(register.type, Filtered(register.fields))]

\* print_registers: one entry for each register that has fields
RECURSIVE PrintRegisters(_)
PrintRegisters(registers) ==
    IF registers = <<>> THEN <<>>
    ELSE (IF Len(Head(registers).fields) < 1 THEN <<>>
          ELSE <<PrintRegister(Head(registers))>>)
           \o PrintRegisters(Tail(registers))

print_registers(peripheral) == PrintRegisters(peripheral.registers)

(***************************************************************************)
(* main                                                                    *)
(***************************************************************************)
\* Field.__eq__
FieldEq(a, b) ==
    /\ a.name = b.name
    /\ a.description = b.description
    /\ a.offset = b.offset
    /\ a.width = b.width
    /\ a.readonly = b.readonly

\* Register.__eq__
RegisterEq(a, b) ==
    /\ a.size = b.size
    /\ a.offset = b.offset
    /\ a.name = b.name
    /\ a.description = b.description
    /\ a.type = b.type
    /\ Len(a.fields) = Len(b.fields)
    /\ \A i \in 1..Len(a.fields) : FieldEq(a.fields[i], b.fields[i])
    /\ a.reserved = b.reserved
    /\ a.reset = b.reset

\* Peripheral.__eq__
PeripheralEq(a, b) ==
    /\ a.name = b.name
    /\ a.description = b.description
    /\ Len(a.registers) = Len(b.registers)
    /\ \A i \in 1..Len(a.registers) : RegisterEq(a.registers[i], b.registers[i])

\* Peripheral.register_count
RegisterCount(p) == Len(p.registers)

\* Peripheral.field_count
RECURSIVE FieldCount(_)
FieldCount(registers) ==
    IF registers = <<>> THEN 0
    ELSE Len(Head(registers).fields) + FieldCount(Tail(registers))

\* args.prefix
Prefix == "p"

\* line 604: f'{args.prefix}_{peripheral.name.lower()}.h'
CanonicalPath(p) == <<Prefix, "_">> \o Lower(p.name) \o <<".h">>

\* line 612: f'duplicate/{args.prefix}_{peripheral.realname.lower()}.h'
DuplicatePath(p) == <<"duplicate/", Prefix, "_">> \o Lower(p.realname) \o <<".h">>

\* The last accepted peripheral of that name.
FindLastDuplicate(accepted, p) ==
    LET same == {i \in 1..Len(accepted) : accepted[i].name = p.name}
    IN  IF same = {} THEN None ELSE Elem(accepted[SetMax(same)])

\* line 607: next((x for x in peripherals if x.name == peripheral.name), None):
\* None or <<the first accepted peripheral of that name>>
FindDuplicate(accepted, p) ==
    LET same == {i \in 1..Len(accepted) : accepted[i].name = p.name}
    IN  IF same = {} THEN None ELSE Elem(accepted[SetMin(same)])

\* line 610: duplicate is not None and peripheral != duplicate
Divergent(duplicate, p) ==
    duplicate # None /\ ~PeripheralEq(p, Text(duplicate))

\* lines 629-641: what the header file of a peripheral is written from
Header(p) == [name |-> p.name, description |-> p.description, registers |-> p.registers]

\* open(path, 'w') and the writes
WriteFile(fs, path, content) ==
    {f \in fs : f.path # path} \cup {[path |-> path, content |-> content]}

ReadFile(fs, path) == (CHOOSE f \in fs : f.path = path).content

\* line 655: os.path.splitext(duplicate[1])[0] + '.diff'
DiffPath(path) == SubSeq(path, 1, Len(path) - 1) \o <<".diff">>

MainIdle ==
    /\ output = None
    /\ peripherals_xml = None
    /\ idx = 0
    /\ peripherals = None
    /\ duplicates = None
    /\ derived = 0
    /\ register_count = 0
    /\ field_count = 0
    /\ files = None
    /\ diffs = None
    /\ main_pc = "idle"

InLoop == main_pc = "loop" /\ idx <= Len(peripherals_xml)

\* lines 593-596
SkipDerived ==
    /\ InLoop
    /\ peripherals_xml[idx].derivedFrom
    /\ derived' = derived + 1
    /\ idx' = idx + 1
    /\ UNCHANGED <<output, peripherals_xml, peripherals, duplicates,
                   register_count, field_count, files, diffs, main_pc>>
    /\ UNCHANGED <<namevars, fieldvars, peripheralvars, printedvars>>

\* line 598: an exception leaves load_peripheral; main catches nothing
\* here, so it leaves main too and the run ends with a traceback.
LoadRaises ==
    /\ InLoop
    /\ ~peripherals_xml[idx].derivedFrom
    /\ \E result \in {load_peripheral(peripherals_xml[idx])} :
          result.exc # NoException
    /\ main_pc' = "raised"
    /\ UNCHANGED <<output, peripherals_xml, idx, peripherals, duplicates, derived,
                   register_count, field_count, files, diffs>>
    /\ UNCHANGED <<namevars, fieldvars, peripheralvars, printedvars>>

\* lines 598-602: load_peripheral returns None
SkipNone ==
    /\ InLoop
    /\ ~peripherals_xml[idx].derivedFrom
    /\ \E result \in {load_peripheral(peripherals_xml[idx])} :
          result.exc = NoException /\ result.value = None
    /\ idx' = idx + 1
    /\ UNCHANGED <<output, peripherals_xml, peripherals, duplicates, derived,
                   register_count, field_count, files, diffs, main_pc>>
    /\ UNCHANGED <<namevars, fieldvars, peripheralvars, printedvars>>

\* lines 604-620: the path a loaded peripheral is routed to
RoutedPath(duplicate, p) ==
    IF Divergent(duplicate, p) THEN DuplicatePath(p) ELSE CanonicalPath(p)

\* lines 604-644: the loaded peripheral p, with `duplicate` what the search
\* of line 607 found and `path` the path it is routed to, is accepted and
\* written
AcceptPeripheral(p, duplicate, path) ==
    /\ duplicates' = IF Divergent(duplicate, p)
                     THEN Append(duplicates, <<Text(duplicate).path, path>>)
                     ELSE duplicates
    /\ peripherals' = Append(peripherals, [p EXCEPT !.path = path])
    /\ files' = IF output THEN WriteFile(files, path, Header(p)) ELSE files
    /\ register_count' = IF output THEN register_count + RegisterCount(p)
                         ELSE register_count
    /\ field_count' = IF output THEN field_count + FieldCount(p.registers)
                      ELSE field_count

\* lines 598-644: a peripheral is loaded, routed, accepted and written
Accept ==
    /\ InLoop
    /\ ~peripherals_xml[idx].derivedFrom
    /\ \E result \in {load_peripheral(peripherals_xml[idx])} :
          /\ result.exc = NoException
          /\ result.value # None
          /\ \E duplicate \in {FindDuplicate(peripherals, Text(result.value))} :
                \E path \in {RoutedPath(duplicate, Text(result.value))} :
                    AcceptPeripheral(Text(result.value), duplicate, path)
    /\ idx' = idx + 1
    /\ UNCHANGED <<output, peripherals_xml, derived, diffs, main_pc>>
    /\ UNCHANGED <<namevars, fieldvars, peripheralvars, printedvars>>

\* lines 646-662: after the loop a .diff file is written for every queued
\* pair, from the two header files as they are then
Finish ==
    /\ main_pc = "loop"
    /\ idx > Len(peripherals_xml)
    /\ diffs' = IF output
                THEN [k \in 1..Len(duplicates) |->
                        [path      |-> DiffPath(duplicates[k][2]),
                         original  |-> ReadFile(files, duplicates[k][1]),
                         duplicate |-> ReadFile(files, duplicates[k][2])]]
                ELSE diffs
    /\ main_pc' = "done"
    /\ UNCHANGED <<output, peripherals_xml, idx, peripherals, duplicates, derived,
                   register_count, field_count, files>>
    /\ UNCHANGED <<namevars, fieldvars, peripheralvars, printedvars>>

(***************************************************************************)
(* SpecName: Peripheral(realname, ...) and Peripheral(first.name, ...)     *)
(***************************************************************************)
MaxNameLen == 4

NameAlphabet == {"U", "u", "0", "1", "_"}

RECURSIVE Texts(_, _)
Texts(alphabet, n) ==
    IF n = 0 THEN {<<>>}
    ELSE LET shorter == Texts(alphabet, n - 1)
         IN  shorter \cup {Append(s, c) : s \in {t \in shorter : Len(t) = n - 1},
                                          c \in alphabet}

NameIdle ==
    /\ realname = None
    /\ first = None
    /\ second = None
    /\ name_pc = "idle"

NameStart ==
    /\ realname \in Texts(NameAlphabet, MaxNameLen)
    /\ first = None
    /\ second = None
    /\ name_pc = "start"

Construct ==
    /\ name_pc = "start"
    /\ first' = Peripheral(realname, "", <<>>)
    /\ name_pc' = "constructed"
    /\ UNCHANGED <<realname, second>>
    /\ UNCHANGED <<fieldvars, peripheralvars, printedvars, mainvars>>

Reconstruct ==
    /\ name_pc = "constructed"
    /\ second' = Peripheral(first.name, "", <<>>)
    /\ name_pc' = "reconstructed"
    /\ UNCHANGED <<realname, first>>
    /\ UNCHANGED <<fieldvars, peripheralvars, printedvars, mainvars>>

(***************************************************************************)
(* SpecFields: load_registers on one <register> element                    *)
(***************************************************************************)
MaxFields == 3

\* The bit positions at which the input fields begin and end.
BitEdges == {0, 1, 2, 5, 8, 16, 31, 32}

\* The msb and lsb values of the bitRange texts.
RangeBits == {0, 3, 4, 7, 15, 31}

\* The text "[a:b]"
BitRangeText(a, b) == <<"[">> \o Dec(a) \o <<":">> \o Dec(b) \o <<"]">>

\* <field> with <bitOffset> and <bitWidth>
OffsetWidthField(name, offset, width, access) ==
    [name |-> name, description |-> "", bitOffset |-> Elem(Dec(offset)),
     bitWidth |-> Elem(Dec(width)), bitRange |-> None, access |-> access]

\* <field> without <bitOffset> and <bitWidth>; bitRange is the <bitRange>
\* element or None
BitRangeField(name, bitRange, access) ==
    [name |-> name, description |-> "", bitOffset |-> None,
     bitWidth |-> None, bitRange |-> bitRange, access |-> access]

RegisterXml(name, size, addressOffset, fields) ==
    [name |-> name, description |-> "", size |-> size,
     addressOffset |-> addressOffset, resetValue |-> 0, fields |-> fields]

FieldName(i) == <<"F", Digits[i + 1]>>

\* The bit ranges [a, b) an input field can have.
Intervals == {iv \in BitEdges \X BitEdges : iv[1] < iv[2]}

\* Field i of fields_xml and the bit range iv are disjoint.
Apart(fields_xml, i, iv) ==
    LET offset == ParseInt(Text(fields_xml[i].bitOffset))
        width  == ParseInt(Text(fields_xml[i].bitWidth))
    IN  offset + width <= iv[1] \/ iv[2] <= offset

\* The <access> of input field n: the field given first is read-only or
\* has no <access>, the later ones have none.
FieldAccesses(n) == IF n = 1 THEN {None, Elem("read-only")} ELSE {None}

\* Sequences of n <field> elements with bitOffset/bitWidth, in any order,
\* pairwise disjoint, each from one edge to a later one.
RECURSIVE Layouts(_)
Layouts(n) ==
    IF n = 0 THEN {<<>>}
    ELSE UNION {{Append(s, OffsetWidthField(FieldName(n), iv[1], iv[2] - iv[1], access)) :
                    iv \in {v \in Intervals : \A i \in 1..Len(s) : Apart(s, i, v)},
                    access \in FieldAccesses(n)} :
                s \in Layouts(n - 1)}

MalformedBitRanges ==
    {<<>>, <<"7", ":", "4">>, <<"[", "7", "-", "4", "]">>, <<"[", "7", ":", "]">>}

FieldInputs ==
    UNION {Layouts(n) : n \in 0..MaxFields}
      \cup {<<BitRangeField(FieldName(1), Elem(BitRangeText(a, b)), None)>> :
              a \in RangeBits, b \in RangeBits}
      \cup {<<BitRangeField(FieldName(1), Elem(t), None)>> : t \in MalformedBitRanges}
      \cup {<<BitRangeField(FieldName(1), None, None)>>}

FieldsIdle ==
    /\ registers_xml = None
    /\ loaded = None
    /\ fields_pc = "idle"

FieldsStart ==
    /\ registers_xml \in
          {<<RegisterXml(<<"R">>, 32, 0, Elem(fields))>> : fields \in FieldInputs}
            \cup {<<RegisterXml(<<"R">>, 32, 0, None)>>}
    /\ loaded = None
    /\ fields_pc = "start"

CallLoadRegisters ==
    /\ fields_pc = "start"
    /\ loaded' = load_registers(registers_xml)
    /\ fields_pc' = IF loaded'.exc = NoException THEN "returned" ELSE "raised"
    /\ UNCHANGED registers_xml
    /\ UNCHANGED <<namevars, peripheralvars, printedvars, mainvars>>

(***************************************************************************)
(* SpecPeripheral: load_peripheral on registers without fields             *)
(***************************************************************************)
MaxRegisters == 3

\* The offsets at which the input registers begin and end.
RegisterEdges == {0, 4, 8, 12, 16, 24, 32}

RegisterSpans == {v \in RegisterEdges \X RegisterEdges : v[1] < v[2]}

RegisterName(i) == <<"R", Digits[i + 1]>>

\* Sequences of n <register> elements, in any order, pairwise disjoint,
\* each from one edge to a later one.
RECURSIVE RegisterLayouts(_)
RegisterLayouts(n) ==
    IF n = 0 THEN {<<>>}
    ELSE UNION {{Append(s, RegisterXml(RegisterName(n), v[2] - v[1], v[1], None)) :
                    v \in {w \in RegisterSpans :
                             \A i \in 1..Len(s) :
                                 \/ s[i].addressOffset + s[i].size <= w[1]
                                 \/ w[2] <= s[i].addressOffset}} :
                s \in RegisterLayouts(n - 1)}

PeripheralXml(name, description, derivedFrom, registers) ==
    [name |-> name, description |-> description, derivedFrom |-> derivedFrom,
     registers |-> registers]

PeripheralIdle ==
    /\ peripheral_xml = None
    /\ loaded_peripheral = None
    /\ peripheral_pc = "idle"

PeripheralStart ==
    /\ peripheral_xml \in
          {PeripheralXml(<<"U", "0">>, "d", FALSE, registers) :
              registers \in UNION {RegisterLayouts(n) : n \in 0..MaxRegisters}}
    /\ loaded_peripheral = None
    /\ peripheral_pc = "start"

CallLoadPeripheral ==
    /\ peripheral_pc = "start"
    /\ loaded_peripheral' = load_peripheral(peripheral_xml)
    /\ peripheral_pc' = IF loaded_peripheral'.exc = NoException THEN "returned" ELSE "raised"
    /\ UNCHANGED peripheral_xml
    /\ UNCHANGED <<namevars, fieldvars, printedvars, mainvars>>

(***************************************************************************)
(* SpecMask: print_registers on a register with one named field            *)
(***************************************************************************)
PrintedIdle ==
    /\ printed_peripheral = None
    /\ printed = None
    /\ printed_pc = "idle"

\* The peripheral load_peripheral builds from one 32-bit register with one
\* field of width w at offset k, for every k and w with k + w <= 32.
PrintedStart ==
    /\ printed_peripheral \in
          {load_peripheral(PeripheralXml(<<"U", "0">>, "d", FALSE,
               <<RegisterXml(<<"R">>, 32, 0,
                    Elem(<<OffsetWidthField(FieldName(1), kw[1], kw[2], None)>>))>>)).value[1] :
              kw \in {v \in (0..(RegisterBits - 1)) \X (1..RegisterBits) :
                        v[1] + v[2] <= RegisterBits}}
    /\ printed = None
    /\ printed_pc = "start"

CallPrintRegisters ==
    /\ printed_pc = "start"
    /\ printed' = print_registers(printed_peripheral)
    /\ printed_pc' = "printed"
    /\ UNCHANGED printed_peripheral
    /\ UNCHANGED <<namevars, fieldvars, peripheralvars, mainvars>>

(***************************************************************************)
(* SpecMain: the loop of main over the <peripheral> elements               *)
(***************************************************************************)
MaxPeripherals == 3

\* One 32-bit register with one field of the given width at bit 0.
OneFieldRegisters(width) ==
    <<RegisterXml(<<"R">>, 32, 0, Elem(<<OffsetWidthField(FieldName(1), 0, width, None)>>))>>

\* One register whose field has neither bitOffset/bitWidth nor bitRange.
NoRangeRegisters ==
    <<RegisterXml(<<"R">>, 32, 0, Elem(<<BitRangeField(FieldName(1), None, None)>>))>>

\* One register whose field has a bitRange that is not of the form [n:m].
MalformedRangeRegisters ==
    <<RegisterXml(<<"R">>, 32, 0,
                  Elem(<<BitRangeField(FieldName(1), Elem(<<"7", ":", "4">>), None)>>))>>

MainNames == {<<"U", "0">>, <<"U", "1">>, <<"u", "1">>, <<"S">>}

PeripheralInputs ==
    {PeripheralXml(name, "d", FALSE, OneFieldRegisters(width)) :
        name \in MainNames, width \in {1, 2}}
      \cup {PeripheralXml(<<"U", "1">>, "e", FALSE, OneFieldRegisters(1)),
            PeripheralXml(<<"U", "0">>, "d", FALSE, NoRangeRegisters),
            PeripheralXml(<<"U", "0">>, "d", FALSE, MalformedRangeRegisters),
            PeripheralXml(<<"U", "0">>, "d", FALSE, <<>>),
            PeripheralXml(<<"U", "0">>, "d", TRUE, <<>>)}

MainStart ==
    /\ output \in BOOLEAN
    /\ peripherals_xml \in UNION {[1..n -> PeripheralInputs] : n \in 0..MaxPeripherals}
    /\ idx = 1
    /\ peripherals = <<>>
    /\ duplicates = <<>>
    /\ derived = 0
    /\ register_count = 0
    /\ field_count = 0
    /\ files = {}
    /\ diffs = <<>>
    /\ main_pc = "loop"

(***************************************************************************)
(* Specifications                                                          *)
(***************************************************************************)
NameInit == NameStart /\ FieldsIdle /\ PeripheralIdle /\ PrintedIdle /\ MainIdle

NameNext == Construct \/ Reconstruct

SpecName == NameInit /\ [][NameNext]_vars

FieldsInit == FieldsStart /\ NameIdle /\ PeripheralIdle /\ PrintedIdle /\ MainIdle

FieldsNext == CallLoadRegisters

SpecFields == FieldsInit /\ [][FieldsNext]_vars

PeripheralInit == PeripheralStart /\ NameIdle /\ FieldsIdle /\ PrintedIdle /\ MainIdle

PeripheralNext == CallLoadPeripheral

SpecPeripheral == PeripheralInit /\ [][PeripheralNext]_vars

PrintedInit == PrintedStart /\ NameIdle /\ FieldsIdle /\ PeripheralIdle /\ MainIdle

PrintedNext == CallPrintRegisters

SpecMask == PrintedInit /\ [][PrintedNext]_vars

MainInit == MainStart /\ NameIdle /\ FieldsIdle /\ PeripheralIdle /\ PrintedIdle

MainNext == SkipDerived \/ LoadRaises \/ SkipNone \/ Accept \/ Finish

SpecMain == MainInit /\ [][MainNext]_vars

(***************************************************************************)
(* Properties of Peripheral.__init__                                       *)
(***************************************************************************)
\* The trailing maximal run of digits of s starts after position DigitRunStart(s).
DigitRunStart(s) ==
    SetMin({i \in 0..Len(s) : \A j \in (i + 1)..Len(s) : IsDigit(s[j])})

\* The canonical name as the specification words it.
StripTrailingDigits(s) ==
    IF DigitRunStart(s) >= 1 THEN SubSeq(s, 1, DigitRunStart(s)) ELSE s

\* C4: the canonical name is realname without its whole maximal trailing
\* run of digits when a character remains before the run, else realname.
C4_NameStripsWholeDigitRun ==
    name_pc # "start" => first.name = StripTrailingDigits(realname)

\* C5: deriving the canonical name of a canonical name returns it unchanged.
C5_NameIdempotent ==
    name_pc = "reconstructed" => second.name = first.name


(***************************************************************************)
(* Properties of load_registers                                            *)
(***************************************************************************)
\* The Field objects built from the <field> elements of input register i
\* (lines 397-441), before the reserved fields are added.
InputFields(i) ==
    IF registers_xml[i].fields # None
    THEN ParseFields(Text(registers_xml[i].fields)).fields
    ELSE <<>>

\* The field list of register i as load_registers returns it.
OutputFields(i) == loaded.value[i].fields

\* At least one field, each inside bits 0..31, no two overlapping.
ValidInput(fs) ==
    /\ Len(fs) >= 1
    /\ \A i \in 1..Len(fs) :
          /\ fs[i].width >= 1
          /\ fs[i].offset >= 0
          /\ fs[i].offset + fs[i].width <= RegisterBits
    /\ \A i \in 1..Len(fs) : \A j \in 1..(i - 1) :
          \/ fs[i].offset + fs[i].width <= fs[j].offset
          \/ fs[j].offset + fs[j].width <= fs[i].offset

\* fs starts at bit 0, each field starts where the one before it ends, and
\* the last field ends at bit 32.
Covers(fs) ==
    /\ fs[1].offset = 0
    /\ \A k \in 1..(Len(fs) - 1) : fs[k + 1].offset = fs[k].offset + fs[k].width
    /\ fs[Len(fs)].offset + fs[Len(fs)].width = RegisterBits

Synthesized(i, k) == \A j \in 1..Len(InputFields(i)) : OutputFields(i)[k] # InputFields(i)[j]

FirstOffset(fs) == SetMin({fs[j].offset : j \in 1..Len(fs)})

\* C1: for every register built from at least one input field (the input
\* fields in any order, disjoint, inside bits 0..31), the returned field
\* list, which is in ascending offset order, starts at bit 0, has each field
\* start where the previous one ends, ends at bit 32, and every reserved
\* field added has an empty name and readonly = TRUE.
C1_FieldsCoverRegister ==
    fields_pc = "returned" =>
        \A i \in 1..Len(loaded.value) :
            ValidInput(InputFields(i)) =>
                /\ Covers(OutputFields(i))
                /\ \A k \in 1..Len(OutputFields(i)) :
                      Synthesized(i, k) =>
                          /\ OutputFields(i)[k].name = <<>>
                          /\ OutputFields(i)[k].readonly = TRUE

\* A register with three input fields out of order, a leading gap, gaps
\* between the fields and a trailing gap has been loaded.
C1_Witness ==
    /\ fields_pc = "returned"
    /\ Len(loaded.value) = 1
    /\ ValidInput(InputFields(1))
    /\ Len(InputFields(1)) = 3
    /\ InputFields(1)[1].offset > InputFields(1)[2].offset
    /\ FirstOffset(InputFields(1)) > 1
    /\ Len(OutputFields(1)) >= 7

\* C6: a field given only by the bitRange text [msb:lsb] with msb >= lsb is
\* loaded with offset = lsb and width = msb - lsb + 1.
C6_BitRangeMsbLsb ==
    fields_pc = "returned" =>
        \A i \in 1..Len(loaded.value) :
            registers_xml[i].fields # None =>
                \A j \in 1..Len(Text(registers_xml[i].fields)) :
                    \A msb \in 0..(RegisterBits - 1) : \A lsb \in 0..msb :
                        LET field_xml == Text(registers_xml[i].fields)[j]
                        IN  field_xml = BitRangeField(field_xml.name,
                                              Elem(BitRangeText(msb, lsb)),
                                              field_xml.access)
                            => \E k \in 1..Len(OutputFields(i)) :
                                  /\ OutputFields(i)[k].name = field_xml.name
                                  /\ OutputFields(i)[k].offset = lsb
                                  /\ OutputFields(i)[k].width = msb - lsb + 1

\* C9: every field of a register built from valid input fields, reserved
\* ones included, has width >= 1, offset in 0..31 and offset + width <= 32.
C9_FieldInvariant ==
    fields_pc = "returned" =>
        \A i \in 1..Len(loaded.value) :
            ValidInput(InputFields(i)) =>
                \A k \in 1..Len(OutputFields(i)) :
                    /\ OutputFields(i)[k].width >= 1
                    /\ OutputFields(i)[k].offset \in 0..(RegisterBits - 1)
                    /\ OutputFields(i)[k].offset + OutputFields(i)[k].width <= RegisterBits

\* C10: when the lowest input field starts at bit f > 0, exactly one field
\* of the returned list lies below bit f: a reserved field at offset 0 of
\* width f, with an empty name and readonly.
C10_OneLeadingReservedField ==
    fields_pc = "returned" =>
        \A i \in 1..Len(loaded.value) :
            (ValidInput(InputFields(i)) /\ FirstOffset(InputFields(i)) > 0) =>
                LET f     == FirstOffset(InputFields(i))
                    below == {k \in 1..Len(OutputFields(i)) : OutputFields(i)[k].offset < f}
                IN  /\ Cardinality(below) = 1
                    /\ \A k \in below :
                          /\ OutputFields(i)[k].name = <<>>
                          /\ OutputFields(i)[k].offset = 0
                          /\ OutputFields(i)[k].width = f
                          /\ OutputFields(i)[k].readonly = TRUE

(***************************************************************************)
(* Properties of load_peripheral                                           *)
(***************************************************************************)
\* The gaps of the input registers: <<offset, size>> of the deficit before
\* the lowest register and of the deficit behind each register up to the
\* next higher one.
InputGaps(registers) ==
    LET lowest == SetMin({registers[i].addressOffset : i \in 1..Len(registers)})
        end(i) == registers[i].addressOffset + registers[i].size
        later(i) == {registers[j].addressOffset :
                        j \in {k \in 1..Len(registers) :
                                 registers[k].addressOffset >= end(i)}}
    IN  (IF lowest > 0 THEN {<<0, lowest>>} ELSE {})
          \cup {<<end(i), SetMin(later(i)) - end(i)>> :
                  i \in {k \in 1..Len(registers) :
                           later(k) # {} /\ SetMin(later(k)) > end(k)}}

\* C2: the register list of a loaded peripheral starts at offset 0, each
\* register starts at the previous one's offset + size, and the reserved
\* registers are one per gap of the input: size firstOffset at offset 0 for
\* the gap before the first register, the missing size at the end of the
\* earlier register for a gap between two registers.
C2_RegistersContiguous ==
    (peripheral_pc = "returned" /\ loaded_peripheral.value # None) =>
        LET registers == Text(loaded_peripheral.value).registers
            reserved  == {k \in 1..Len(registers) : registers[k].reserved}
        IN  /\ registers[1].offset = 0
            /\ \A k \in 1..(Len(registers) - 1) :
                  registers[k + 1].offset = registers[k].offset + registers[k].size
            /\ {<<registers[k].offset, registers[k].size>> : k \in reserved}
                  = InputGaps(peripheral_xml.registers)
            /\ Cardinality(reserved) = Cardinality(InputGaps(peripheral_xml.registers))

(***************************************************************************)
(* Properties of print_registers                                           *)
(***************************************************************************)
RECURSIVE TwoTo(_)
TwoTo(n) == IF n = 0 THEN 1 ELSE 2 * TwoTo(n - 1)

\* The set bits of a small non-negative integer.
IntBits(n) == {b \in 0..6 : (n \div TwoTo(b)) % 2 = 1}

HexValue(c) == CHOOSE v \in 0..15 : HexDigits[v + 1] = c

\* The set bits of the C constant 0x<digits>.
HexBits(digits) ==
    UNION {{4 * (Len(digits) - j) + b : b \in IntBits(HexValue(digits[j]))} :
             j \in 1..Len(digits)}

LiteralBits(literal) ==
    IF Len(literal) > 2 /\ literal[1] = "0" /\ literal[2] = "x"
    THEN HexBits(SubSeq(literal, 3, Len(literal)))
    ELSE IntBits(ParseInt(literal))

TypeBits(type) ==
    CASE type = "uint64_t" -> 64
      [] type = "uint16_t" -> 16
      [] type = "uint8_t"  -> 8
      [] OTHER             -> 32

TheDefine(defines, field, suffix) ==
    defines[CHOOSE k \in 1..Len(defines) :
                defines[k].field = field /\ defines[k].suffix = suffix]

\* The set bits of the value a C compiler gives the emitted constant of a
\* field: the literal, shifted left by the value of the field's _Pos macro
\* when the text says so, converted to the register's type.
MacroValue(defines, field, suffix) ==
    LET d   == TheDefine(defines, field, suffix)
        pos == ParseInt(TheDefine(defines, field, "_Pos").literal)
    IN  IF d.shifted
        THEN {b + pos : b \in LiteralBits(d.literal)} \cap (0..(TypeBits(d.type) - 1))
        ELSE LiteralBits(d.literal)

\* The entry of printed for the register of that name.
PrintedOf(register) ==
    printed[CHOOSE k \in 1..Len(printed) : printed[k].register = register.name]

\* C3: the emitted mask constant of every named field is bit-exact: 1 << k
\* for a field of width 1 at offset k, ((1 << w) - 1) << k for the _Msk of
\* a field of width w > 1 at offset k.
C3_MaskBitExact ==
    printed_pc = "printed" =>
        \A r \in 1..Len(printed_peripheral.registers) :
            LET register == printed_peripheral.registers[r]
            IN  \A k \in 1..Len(register.fields) :
                    LET field == register.fields[k]
                    IN  Len(field.name) > 0 =>
                            IF field.width = 1
                            THEN MacroValue(PrintedOf(register).defines, field.name, "")
                                    = {field.offset}
                            ELSE MacroValue(PrintedOf(register).defines, field.name, "_Msk")
                                    = field.offset..(field.offset + field.width - 1)

(***************************************************************************)
(* Properties of main                                                      *)
(***************************************************************************)
\* The text begins with [n:m] for numbers n and m.
WellFormedBitRange(t) ==
    \E n \in 0..(RegisterBits - 1) : \E m \in 0..(RegisterBits - 1) :
        /\ Len(t) >= Len(BitRangeText(n, m))
        /\ SubSeq(t, 1, Len(BitRangeText(n, m))) = BitRangeText(n, m)

\* A field of the <peripheral> has no bitOffset/bitWidth pair and either no
\* bitRange or one that is not of the form [n:m].
HasUnparsableField(p) ==
    \E r \in 1..Len(p.registers) :
        /\ p.registers[r].fields # None
        /\ \E k \in 1..Len(Text(p.registers[r].fields)) :
              LET field_xml == Text(p.registers[r].fields)[k]
              IN  /\ field_xml.bitOffset = None \/ field_xml.bitWidth = None
                  /\ \/ field_xml.bitRange = None
                     \/ ~WellFormedBitRange(Text(field_xml.bitRange))

\* C7: a field that can not be parsed never ends the run abnormally: its
\* peripheral is skipped, and the peripherals after it are still loaded and
\* accepted.
C7_UnparsableFieldSkipsPeripheral ==
    /\ ~(main_pc = "raised" /\ HasUnparsableField(peripherals_xml[idx]))
    /\ main_pc = "done" =>
          \A i \in 1..Len(peripherals_xml) :
              (/\ ~peripherals_xml[i].derivedFrom
               /\ peripherals_xml[i].registers # <<>>
               /\ ~HasUnparsableField(peripherals_xml[i]))
              => \E j \in 1..Len(peripherals) :
                    peripherals[j].realname = peripherals_xml[i].name

\* Same canonical name, description and register list.
StructurallyEqual(a, b) ==
    /\ a.name = b.name
    /\ a.description = b.description
    /\ a.registers = b.registers

\* The accepted peripherals before position j with the canonical name of
\* the one at j.
Earlier(j) == {i \in 1..(j - 1) : peripherals[i].name = peripherals[j].name}

\* The accepted peripheral at j has an earlier one of its canonical name,
\* and the first of them is structurally unequal to it.
DivergentAt(j) ==
    Earlier(j) # {} /\ ~StructurallyEqual(peripherals[SetMin(Earlier(j))], peripherals[j])

\* The diff queue the claim describes for the first n accepted peripherals.
RECURSIVE QueuedUpTo(_)
QueuedUpTo(n) ==
    IF n = 0 THEN <<>>
    ELSE QueuedUpTo(n - 1)
           \o (IF DivergentAt(n)
               THEN <<<<peripherals[SetMin(Earlier(n))].path, peripherals[n].path>>>>
               ELSE <<>>)

\* The realnames of the first n <peripheral> elements that are not derived
\* and have registers.
RECURSIVE LoadedUpTo(_)
LoadedUpTo(n) ==
    IF n = 0 THEN <<>>
    ELSE LoadedUpTo(n - 1)
           \o (IF ~peripherals_xml[n].derivedFrom /\ peripherals_xml[n].registers # <<>>
               THEN <<peripherals_xml[n].name>> ELSE <<>>)

\* C8: a loaded peripheral is routed to duplicate/<prefix>_<realname>.h, and
\* the pair (path of the first accepted peripheral of its canonical name,
\* that path) queued, exactly when there is an already accepted peripheral
\* of its canonical name (the one the search finds, the first) and it is
\* structurally unequal to it; otherwise it is routed to
\* <prefix>_<canonical name>.h and nothing is queued.  It is appended to the
\* accepted list in both cases.
C8_DivergentRouting ==
    /\ \A j \in 1..Len(peripherals) :
          peripherals[j].path =
              IF DivergentAt(j)
              THEN <<"duplicate/", Prefix, "_">> \o Lower(peripherals[j].realname) \o <<".h">>
              ELSE <<Prefix, "_">> \o Lower(peripherals[j].name) \o <<".h">>
    /\ duplicates = QueuedUpTo(Len(peripherals))
    /\ [j \in 1..Len(peripherals) |-> peripherals[j].realname]
          = LoadedUpTo(IF main_pc = "loop" THEN idx - 1
                       ELSE IF main_pc = "done" THEN Len(peripherals_xml)
                       ELSE idx - 1)

\* Three peripherals of one canonical name have been accepted: the second
\* differs from the first and went to duplicate/, the third equals the
\* first (and differs from the second) and went to the canonical path.
C8_Witness ==
    /\ Len(peripherals) = 3
    /\ peripherals[1].name = peripherals[2].name
    /\ peripherals[1].name = peripherals[3].name
    /\ ~StructurallyEqual(peripherals[1], peripherals[2])
    /\ StructurallyEqual(peripherals[1], peripherals[3])
    /\ peripherals[2].path[1] = "duplicate/"
    /\ peripherals[3].path = peripherals[1].path
    /\ Len(duplicates) = 1

\* Every <peripheral> element is not derived and the realnames are pairwise
\* distinct ignoring letter case.
DistinctRealnames ==
    /\ \A i \in 1..Len(peripherals_xml) : ~peripherals_xml[i].derivedFrom
    /\ \A i \in 1..Len(peripherals_xml) : \A j \in 1..Len(peripherals_xml) :
          i # j => Lower(peripherals_xml[i].name) # Lower(peripherals_xml[j].name)

\* Any two accepted peripherals that were assigned the same path are
\* structurally equal.
SamePathSameStructure ==
    \A i \in 1..Len(peripherals) : \A j \in 1..Len(peripherals) :
        peripherals[i].path = peripherals[j].path
            => StructurallyEqual(peripherals[i], peripherals[j])

\* The file at the path of every accepted peripheral still holds what was
\* written for that peripheral.
NothingOverwritten ==
    output = TRUE =>
        \A i \in 1..Len(peripherals) :
            /\ \E f \in files : f.path = peripherals[i].path
            /\ StructurallyEqual(ReadFile(files, peripherals[i].path), peripherals[i])

\* The first component of every queued pair is the path of the first
\* accepted peripheral of the canonical name of the peripheral the pair was
\* queued for, and that path is not under duplicate/.
DiffAgainstFirst ==
    \A k \in 1..Len(duplicates) :
        \E j \in 1..Len(peripherals) :
            /\ peripherals[j].path = duplicates[k][2]
            /\ Earlier(j) # {}
            /\ duplicates[k][1] = peripherals[SetMin(Earlier(j))].path
            /\ duplicates[k][1][1] # "duplicate/"

\* C11: over <peripheral> elements that are not derived and whose realnames
\* are pairwise distinct ignoring letter case, after every iteration of the
\* main loop any two accepted peripherals with the same path are
\* structurally equal, so no header file written earlier is overwritten
\* with different content, and the first component of every queued diff
\* pair is the path of the first accepted peripheral of that canonical
\* name, which is not under duplicate/.
C11_SamePathSameContent ==
    (main_pc \in {"loop", "done"} /\ DistinctRealnames) =>
        /\ SamePathSameStructure
        /\ NothingOverwritten
        /\ DiffAgainstFirst

=============================================================================
